---- MODULE Spec2Model ----
(***************************************************************************)
(* Model of resizecbz.py: the batch loop of main, the path validation of   *)
(* resizeCbz, the temp-file/rename publication of resizeZippedImages and   *)
(* the per-entry loop of resize.  Paths and entry names are sequences of   *)
(* one-character strings so that splitext/endswith/startswith/join are     *)
(* computed as the library computes them.                                  *)
(***************************************************************************)
EXTENDS Integers, Sequences, FiniteSets, TLC

VARIABLES
    config,     \* resizeParameters: the resolved [resize.cbz] section
    files,      \* regular files on disk: path -> [entries, closed]
    dirs,       \* directories on disk
    pc,         \* position of the single thread of control
    nDone,      \* number of batch inputs taken from argv so far
    job,        \* locals of the running resizeCbz/resizeZippedImages call
    log,        \* lines appended to resizecbz.error.log.txt
    results,    \* history: one record per batch input taken
    progress    \* locals of resize: the progress line of the entry in hand

vars == <<config, files, dirs, pc, nDone, job, log, results, progress>>

\* ---------------------------------------------------------------- bounds
MaxBatch == 2       \* inputs taken from argv in one run
MaxDim == 4         \* largest image width/height decoded
MaxBox == 2         \* largest configured bounding-box side

\* ------------------------------------------------------- string helpers
Max(a, b) == IF a >= b THEN a ELSE b
Abs(a) == IF a >= 0 THEN a ELSE -a

UpperToLower == [c \in {"B", "C", "Z", "P", "N", "G", "R"} |->
                   CASE c = "B" -> "b" [] c = "C" -> "c" [] c = "Z" -> "z"
                     [] c = "P" -> "p" [] c = "N" -> "n" [] c = "G" -> "g"
                     [] c = "R" -> "r"]

\* str.lower()
lower(s) == [i \in 1..Len(s) |->
               IF s[i] \in DOMAIN UpperToLower THEN UpperToLower[s[i]] ELSE s[i]]

\* str.rfind(c), 1-based; 0 when c does not occur
rfind(s, c) ==
    LET hits == {i \in 1..Len(s) : s[i] = c}
    IN  IF hits = {} THEN 0 ELSE CHOOSE i \in hits : \A j \in hits : j <= i

\* str.endswith / str.startswith
endswith(s, suffix) ==
    /\ Len(suffix) <= Len(s)
    /\ SubSeq(s, Len(s) - Len(suffix) + 1, Len(s)) = suffix

startswith(s, prefix) ==
    /\ Len(prefix) <= Len(s)
    /\ SubSeq(s, 1, Len(prefix)) = prefix

\* os.path.splitext: split at the last dot of the last component, unless
\* that component consists of leading dots only up to it
splitext(p) ==
    LET sepIndex == rfind(p, "/")
        dotIndex == rfind(p, ".")
    IN  IF /\ dotIndex > sepIndex
           /\ \E k \in (sepIndex + 1)..(dotIndex - 1) : p[k] # "."
        THEN <<SubSeq(p, 1, dotIndex - 1), SubSeq(p, dotIndex, Len(p))>>
        ELSE <<p, <<>> >>

\* str.rstrip("/")
RECURSIVE rstripSep(_)
rstripSep(s) ==
    IF s # <<>> /\ s[Len(s)] = "/" THEN rstripSep(SubSeq(s, 1, Len(s) - 1))
    ELSE s

\* os.path.split: (head, tail) around the last separator
split(p) ==
    LET i == rfind(p, "/")
        head == SubSeq(p, 1, i)
        tail == SubSeq(p, i + 1, Len(p))
    IN  IF head # <<>> /\ \E k \in 1..i : head[k] # "/"
        THEN <<rstripSep(head), tail>>
        ELSE <<head, tail>>

basename(p) == SubSeq(p, rfind(p, "/") + 1, Len(p))

\* os.path.join(a, b)
join(a, b) ==
    IF startswith(b, <<"/">>) THEN b
    ELSE IF a = <<>> \/ endswith(a, <<"/">>) THEN a \o b
    ELSE a \o <<"/">> \o b

\* ------------------------------------------------------ image resizing
\* The extensions resize accepts, compared after lower()
SupportedExts == { <<".", "j", "p", "g">>, <<".", "j", "p", "e", "g">>,
                   <<".", "p", "n", "g">>, <<".", "g", "i", "f">> }

isSupported_bmp(filename) ==
    lower(splitext(filename)[2]) \in SupportedExts \cup { <<".", "b", "m", "p">> }

isSupported(filename) == lower(splitext(filename)[2]) \in SupportedExts

\* math.floor and math.ceil of num/den
floor(num, den) == num \div den
ceil(num, den) == (num + den - 1) \div den

\* round_aspect of Image.thumbnail: whichever of floor and ceil has the
\* smaller key (floor on a tie), but at least 1; ceilCloser says the key of
\* ceil is strictly smaller than that of floor
roundAspect(lo, hi, ceilCloser) == Max(IF ceilCloser THEN hi ELSE lo, 1)

\* scales to the box even when the image already fits
thumbnail_forced(size, box) ==
    LET w == size[1]
        h == size[2]
        x == box[1]
        y == box[2]
    IN  IF x * h >= w * y THEN <<Max(floor(y * w, h), 1), y>>
        ELSE <<x, Max(floor(x * h, w), 1)>>

\* Image.thumbnail(box): the size img.size has afterwards
thumbnail(size, box) ==
    LET w == size[1]
        h == size[2]
        x == box[1]
        y == box[2]
        \* new width y*w/h, key(n) = |w/h - n/y| compared through h*y
        loX == floor(y * w, h)
        hiX == ceil(y * w, h)
        ceilCloserX == Abs(w * y - hiX * h) < Abs(w * y - loX * h)
        \* new height x*h/w, key(n) = 0 if n = 0 else |w/h - x/n|,
        \* cross-multiplied
        loY == floor(x * h, w)
        hiY == ceil(x * h, w)
        ceilCloserY ==
            /\ loY # 0
            /\ Abs(w * hiY - x * h) * loY < Abs(w * loY - x * h) * hiY
    IN  IF x >= w /\ y >= h THEN size
        ELSE IF x * h >= w * y
             THEN <<roundAspect(loX, hiX, ceilCloserX), y>>
             ELSE <<x, roundAspect(loY, hiY, ceilCloserY)>>

\* the box resize passes to thumbnail: landscape only when wider than tall
selectBox(size, resizeLandscape, resizePortrait) ==
    IF size[1] > size[2] THEN resizeLandscape ELSE resizePortrait

\* int(parameters[key]) -> (value, value)
squareBox(value) == <<value, value>>

\* ------------------------------------------------------------ the world
\* the literal appended to outputPath to name the temp file
TempSuffix ==
    <<".", "0", "b", "d", "1", "5", "8", "1", "8", "6", "0", "4", "b", "9", "9", "5", "c", "d", "9", "c", "0", "0", "8", "2", "5", "a", "4", "c", "6", "9", "2", "d", "5", "d", ".", "t", "e", "m", "p">>

\* candidate command-line arguments
A_cbz == <<"a", ".", "c", "b", "z">>
DA_cbz == <<"d", "/", "a", ".", "c", "b", "z">>
B_CBZ == <<"b", ".", "C", "B", "Z">>
C_cbz == <<"c", ".", "c", "b", "z">>
E_cbz == <<"e", ".", "c", "b", "z">>
A_r_cbz == <<"a", ".", "r", ".", "c", "b", "z">>
A_zip == <<"a", ".", "z", "i", "p">>

\* the path the temp file of C_cbz gets under resized_file_ext = .r.cbz
C_temp == <<"c", ".", "r", ".", "c", "b", "z">> \o TempSuffix

InputPaths == {A_cbz, DA_cbz, B_CBZ, C_cbz, E_cbz, A_r_cbz, A_zip, C_temp}

\* entry names found in the archives on disk
N_1jpg == <<"1", ".", "j", "p", "g">>
N_2PNG == <<"2", ".", "P", "N", "G">>
N_1gif == <<"1", ".", "g", "i", "f">>
N_3jpeg == <<"3", ".", "j", "p", "e", "g">>
N_pbmp == <<"p", ".", "b", "m", "p">>
N_x == <<"x">>

Archive(names) == [entries |-> names, closed |-> TRUE]

\* the files on disk before the run; C_temp does not exist
InitFiles ==
    (A_cbz :> Archive(<<N_1jpg, N_2PNG>>)) @@
    (DA_cbz :> Archive(<<N_1gif, N_pbmp, N_3jpeg>>)) @@
    (B_CBZ :> Archive(<<N_2PNG>>)) @@
    (C_cbz :> Archive(<<N_pbmp, N_1jpg>>)) @@
    (E_cbz :> Archive(<<N_3jpeg, N_x>>)) @@
    (A_r_cbz :> Archive(<<N_1gif>>)) @@
    (A_zip :> Archive(<<N_1jpg>>))

InitDirs == { <<"d">> }

\* values of resized_file_ext and output_directory tried
ExtValues == { <<".", "r", ".", "c", "b", "z">>, <<".", "c", "b", "z">>, <<"r", ".", "c", "b", "z">>, <<".", "r">> }
DirValues == { <<>>, <<"o">> }

\* int(text): the value of a decimal literal, or -1 where int() raises
\* ValueError
DigitValue == ("0" :> 0) @@ ("1" :> 1) @@ ("2" :> 2) @@ ("3" :> 3) @@
              ("4" :> 4) @@ ("5" :> 5) @@ ("6" :> 6) @@ ("7" :> 7) @@
              ("8" :> 8) @@ ("9" :> 9)

RECURSIVE int(_)
int(text) ==
    IF text = <<>> \/ \E k \in 1..Len(text) : text[k] \notin DOMAIN DigitValue
    THEN -1
    ELSE IF Len(text) = 1 THEN DigitValue[text[1]]
    ELSE 10 * int(SubSeq(text, 1, Len(text) - 1)) + DigitValue[text[Len(text)]]

\* values of resize_landscape/resize_portrait tried: the literals of
\* 1..MaxBox and one that is not a number
BoxValues == { <<c>> : c \in {d \in DOMAIN DigitValue :
                                 DigitValue[d] \in 1..MaxBox} }
             \cup { <<"x">> }
Sizes == (1..MaxDim) \X (1..MaxDim)

\* ------------------------------------------------------------ the state
NoError == [class |-> "none", what |-> "none", name |-> <<>>]
ValueError(what, name) == [class |-> "ValueError", what |-> what, name |-> name]
OSError(what) == [class |-> "OSError", what |-> what, name |-> <<>>]

NoJob == [inputPath |-> <<>>, outputPath |-> <<>>, tempPath |-> <<>>,
          resizeLandscape |-> <<0, 0>>, resizePortrait |-> <<0, 0>>,
          nameList |-> <<>>, i |-> 0, err |-> NoError]

NoProgress == [i |-> 0, total |-> 0, oldSize |-> <<0, 0>>, newSize |-> <<0, 0>>,
               filename |-> <<>>]

exists_dirsOnly(path) == path \in dirs

exists(path) == path \in DOMAIN files \/ path \in dirs
isfile(path) == path \in DOMAIN files
isdir(path) == path \in dirs

Remove(fs, path) == [q \in DOMAIN fs \ {path} |-> fs[q]]

\* appendToErrorLog: one more line in the error log
appendToErrorLog(layer, path, err) ==
    Append(log, [layer |-> layer, path |-> path, err |-> err])

Result(path, outcome, outputPath, err) ==
    [path |-> path, outcome |-> outcome, outputPath |-> outputPath, err |-> err]

Init ==
    /\ config \in [output_directory : DirValues,
                   resize_landscape : BoxValues,
                   resize_portrait : BoxValues,
                   resized_file_ext : ExtValues]
    /\ files = InitFiles
    /\ dirs = InitDirs
    /\ pc = "main"
    /\ nDone = 0
    /\ job = NoJob
    /\ log = <<>>
    /\ results = <<>>
    /\ progress = NoProgress

\* ------------------------------------------------------------ resizeCbz
\* without the test that path does not already end with resized_file_ext
validate_noSameExt(path, isFile) ==
    LET ext == splitext(path)[2]
        resizedFileExt == config.resized_file_ext
    IN  IF ~isFile THEN ValueError("is not a file", path)
        ELSE IF lower(ext) # <<".", "c", "b", "z">>
             THEN ValueError("does not have extension .cbz", path)
        ELSE IF ~endswith(resizedFileExt, <<".", "c", "b", "z">>)
             THEN ValueError("resized_file_ext does not have extension .cbz",
                             resizedFileExt)
        ELSE IF ~startswith(resizedFileExt, <<".">>)
             THEN ValueError("resized_file_ext does not start with period",
                             resizedFileExt)
        ELSE NoError

\* the ValueError resizeCbz raises for path, or NoError; isFile is what
\* os.path.isfile(path) answers
validate(path, isFile) ==
    LET ext == splitext(path)[2]
        resizedFileExt == config.resized_file_ext
    IN  IF ~isFile THEN ValueError("is not a file", path)
        ELSE IF lower(ext) # <<".", "c", "b", "z">>
             THEN ValueError("does not have extension .cbz", path)
        ELSE IF ~endswith(resizedFileExt, <<".", "c", "b", "z">>)
             THEN ValueError("resized_file_ext does not have extension .cbz",
                             resizedFileExt)
        ELSE IF ~startswith(resizedFileExt, <<".">>)
             THEN ValueError("resized_file_ext does not start with period",
                             resizedFileExt)
        ELSE IF endswith(path, resizedFileExt)
             THEN ValueError("has extension same ext", path)
        ELSE NoError

\* the output path resizeCbz derives for an accepted path
outputPathOf(path) ==
    LET name == splitext(path)[1]
        outputPath == name \o config.resized_file_ext
    IN  IF config.output_directory # <<>>
        THEN join(config.output_directory, basename(outputPath))
        ELSE outputPath

\* writes the archive in place, under the final name
tempPathOf_inPlace(outputPath) == outputPath

\* the temp path resizeZippedImages derives from outputPath
tempPathOf(outputPath) == outputPath \o TempSuffix

\* main takes the next argument; resizeCbz rejects it
resizeCbz_raise(path) ==
    /\ pc = "main"
    /\ nDone < MaxBatch
    /\ validate(path, isfile(path)) # NoError
    /\ job' = [NoJob EXCEPT !.inputPath = path,
                            !.err = validate(path, isfile(path))]
    /\ nDone' = nDone + 1
    /\ pc' = "raised"
    /\ UNCHANGED <<config, files, dirs, log, results, progress>>

\* main takes the next argument; its output exists: warning only
resizeCbz_exists(path) ==
    /\ pc = "main"
    /\ nDone < MaxBatch
    /\ validate(path, isfile(path)) = NoError
    /\ exists(outputPathOf(path))
    /\ nDone' = nDone + 1
    /\ results' = Append(results,
                         Result(path, "exists", outputPathOf(path), NoError))
    /\ UNCHANGED <<config, files, dirs, pc, job, log, progress>>

\* main takes the next argument; resizeCbz calls resizeZippedImages, which
\* converts the two box sides and derives tempPath before its try block
resizeZippedImages_enter(path) ==
    /\ pc = "main"
    /\ nDone < MaxBatch
    /\ validate(path, isfile(path)) = NoError
    /\ ~exists(outputPathOf(path))
    /\ nDone' = nDone + 1
    /\ LET landscape == int(config.resize_landscape)
           portrait == int(config.resize_portrait)
           entered == [NoJob EXCEPT !.inputPath = path,
                                    !.outputPath = outputPathOf(path)]
       IN  IF landscape < 0 \/ portrait < 0
           THEN /\ job' = [entered EXCEPT
                             !.err = ValueError("invalid literal for int()",
                                                <<>>)]
                /\ pc' = "raised"
           ELSE /\ job' = [entered EXCEPT
                             !.resizeLandscape = squareBox(landscape),
                             !.resizePortrait = squareBox(portrait),
                             !.tempPath = tempPathOf(outputPathOf(path))]
                /\ pc' = "makedirs"
    /\ UNCHANGED <<config, files, dirs, log, results, progress>>

\* --------------------------------------------------- resizeZippedImages
\* the except clause of resizeZippedImages that takes err
handlerOf(err) ==
    IF err.class = "ValueError" THEN "except ValueError"
    ELSE "except BaseException"

\* an exception leaves the try block of resizeZippedImages
Raise(err) ==
    /\ job' = [job EXCEPT !.err = err]
    /\ pc' = handlerOf(err)

\* ZipFile.close() on the temp archive: the archive is finalised
closed(fs, path) == [fs EXCEPT ![path].closed = TRUE]

needsMakedirs == LET directory == split(job.outputPath)[1]
                 IN  directory # <<>> /\ ~isdir(directory)

\* the parent directory is created when it is missing
makedirs ==
    /\ pc = "makedirs"
    /\ dirs' = IF needsMakedirs THEN dirs \cup {split(job.outputPath)[1]}
               ELSE dirs
    /\ pc' = "open input"
    /\ UNCHANGED <<config, files, nDone, job, log, results, progress>>

\* os.makedirs fails
makedirs_fault ==
    /\ pc = "makedirs"
    /\ needsMakedirs
    /\ Raise(OSError("makedirs"))
    /\ UNCHANGED <<config, files, dirs, nDone, log, results, progress>>

\* zipfile.ZipFile(inputPath): the entry names are read
openInput ==
    /\ pc = "open input"
    /\ job' = [job EXCEPT !.nameList = files[job.inputPath].entries, !.i = 1]
    /\ pc' = "open temp"
    /\ UNCHANGED <<config, files, dirs, nDone, log, results, progress>>

\* the input is not a readable zip file
openInput_fault ==
    /\ pc = "open input"
    /\ Raise(OSError("open input"))
    /\ UNCHANGED <<config, files, dirs, nDone, log, results, progress>>

\* zipfile.ZipFile(tempPath, 'w'): the temp file is created or truncated
openTemp ==
    /\ pc = "open temp"
    /\ files' = (job.tempPath :> [entries |-> <<>>, closed |-> FALSE]) @@ files
    /\ pc' = "resize"
    /\ UNCHANGED <<config, dirs, nDone, job, log, results, progress>>

\* the temp file cannot be created
openTemp_fault ==
    /\ pc = "open temp"
    /\ Raise(OSError("open temp"))
    /\ UNCHANGED <<config, files, dirs, nDone, log, results, progress>>

\* --------------------------------------------------------------- resize
\* writes the entry under its lower-cased name
resize_entry_lowered(size) ==
    /\ pc = "resize"
    /\ job.i <= Len(job.nameList)
    /\ isSupported(job.nameList[job.i])
    /\ LET filename == job.nameList[job.i]
           box == selectBox(size, job.resizeLandscape, job.resizePortrait)
       IN  /\ progress' = [i |-> job.i, total |-> Len(job.nameList),
                           oldSize |-> size, newSize |-> thumbnail(size, box),
                           filename |-> filename]
           /\ files' = [files EXCEPT ![job.tempPath].entries =
                                         Append(@, lower(filename))]
    /\ job' = [job EXCEPT !.i = @ + 1]
    /\ UNCHANGED <<config, dirs, pc, nDone, log, results>>

\* one turn of the loop of resize on a supported entry whose image has the
\* given size: thumbnail, progress line, writestr under the same name
resize_entry(size) ==
    /\ pc = "resize"
    /\ job.i <= Len(job.nameList)
    /\ isSupported(job.nameList[job.i])
    /\ LET filename == job.nameList[job.i]
           box == selectBox(size, job.resizeLandscape, job.resizePortrait)
       IN  /\ progress' = [i |-> job.i, total |-> Len(job.nameList),
                           oldSize |-> size, newSize |-> thumbnail(size, box),
                           filename |-> filename]
           /\ files' = [files EXCEPT ![job.tempPath].entries =
                                         Append(@, filename)]
    /\ job' = [job EXCEPT !.i = @ + 1]
    /\ UNCHANGED <<config, dirs, pc, nDone, log, results>>

\* one turn of the loop of resize on an entry with another extension; the
\* exception closes the temp archive on its way out of the with block
resize_unsupported ==
    /\ pc = "resize"
    /\ job.i <= Len(job.nameList)
    /\ ~isSupported(job.nameList[job.i])
    /\ Raise(ValueError("is not a supported image", job.nameList[job.i]))
    /\ files' = closed(files, job.tempPath)
    /\ progress' = NoProgress
    /\ UNCHANGED <<config, dirs, nDone, log, results>>

\* Image.open/thumbnail/save or writestr fails on a supported entry
resize_fault(what) ==
    /\ pc = "resize"
    /\ job.i <= Len(job.nameList)
    /\ isSupported(job.nameList[job.i])
    /\ Raise(OSError(what))
    /\ files' = closed(files, job.tempPath)
    /\ progress' = NoProgress
    /\ UNCHANGED <<config, dirs, nDone, log, results>>

\* resize returned: the with block closes the temp archive
closeTemp ==
    /\ pc = "resize"
    /\ job.i > Len(job.nameList)
    /\ files' = closed(files, job.tempPath)
    /\ pc' = "rename"
    /\ progress' = NoProgress
    /\ UNCHANGED <<config, dirs, nDone, job, log, results>>

\* closing the temp archive fails: the file stays unfinished
closeTemp_fault ==
    /\ pc = "resize"
    /\ job.i > Len(job.nameList)
    /\ Raise(OSError("close temp"))
    /\ progress' = NoProgress
    /\ UNCHANGED <<config, files, dirs, nDone, log, results>>

\* os.rename(tempPath, outputPath), then resizeZippedImages returns
rename ==
    /\ pc = "rename"
    /\ files' = (job.outputPath :> files[job.tempPath]) @@
                Remove(files, job.tempPath)
    /\ pc' = "returned"
    /\ UNCHANGED <<config, dirs, nDone, job, log, results, progress>>

\* os.rename fails: nothing moves
rename_fault ==
    /\ pc = "rename"
    /\ Raise(OSError("rename"))
    /\ UNCHANGED <<config, files, dirs, nDone, log, results, progress>>

\* except ValueError: the error is logged and resizeZippedImages returns
except_ValueError ==
    /\ pc = "except ValueError"
    /\ log' = appendToErrorLog("resizeZippedImages", job.inputPath, job.err)
    /\ pc' = "returned"
    /\ UNCHANGED <<config, files, dirs, nDone, job, results, progress>>

\* except BaseException: the error is logged first
except_BaseException ==
    /\ pc = "except BaseException"
    /\ log' = appendToErrorLog("resizeZippedImages", job.inputPath, job.err)
    /\ pc' = "remove temp"
    /\ UNCHANGED <<config, files, dirs, nDone, job, results, progress>>

\* leaves the temp file behind
remove_tempPath_skipped ==
    /\ pc = "remove temp"
    /\ pc' = "remove output"
    /\ UNCHANGED <<config, files, dirs, nDone, job, log, results, progress>>

\* ... then tempPath is removed if it exists
remove_tempPath ==
    /\ pc = "remove temp"
    /\ files' = IF exists(job.tempPath) THEN Remove(files, job.tempPath)
                ELSE files
    /\ pc' = "remove output"
    /\ UNCHANGED <<config, dirs, nDone, job, log, results, progress>>

\* ... then outputPath is removed if it exists, and the error is re-raised
remove_outputPath ==
    /\ pc = "remove output"
    /\ files' = IF exists(job.outputPath) THEN Remove(files, job.outputPath)
                ELSE files
    /\ pc' = "raised"
    /\ UNCHANGED <<config, dirs, nDone, job, log, results, progress>>

\* ----------------------------------------------------------------- main
\* what an input's job ended as
outcomeOf(j) ==
    IF j.err = NoError THEN "published"
    ELSE IF j.err.class = "ValueError" THEN j.err.what
    ELSE "fault"

\* resizeCbz returned normally: main goes on with the next argument
main_next ==
    /\ pc = "returned"
    /\ results' = Append(results, Result(job.inputPath, outcomeOf(job),
                                         job.outputPath, job.err))
    /\ job' = NoJob
    /\ pc' = "main"
    /\ UNCHANGED <<config, files, dirs, nDone, log, progress>>

\* main without its except clause: a ValueError ends the run
main_except_missing ==
    /\ pc = "raised"
    /\ job.err.class = "ValueError"
    /\ results' = Append(results, Result(job.inputPath, outcomeOf(job),
                                         job.outputPath, job.err))
    /\ pc' = "aborted"
    /\ UNCHANGED <<config, files, dirs, nDone, job, log, progress>>

\* except ValueError in main: log and go on with the next argument
main_except_ValueError ==
    /\ pc = "raised"
    /\ job.err.class = "ValueError"
    /\ log' = appendToErrorLog("main", job.inputPath, job.err)
    /\ results' = Append(results, Result(job.inputPath, outcomeOf(job),
                                         job.outputPath, job.err))
    /\ job' = NoJob
    /\ pc' = "main"
    /\ UNCHANGED <<config, files, dirs, nDone, progress>>

\* any other exception leaves main: the process ends with a traceback
main_uncaught ==
    /\ pc = "raised"
    /\ job.err.class # "ValueError"
    /\ results' = Append(results, Result(job.inputPath, outcomeOf(job),
                                         job.outputPath, job.err))
    /\ pc' = "aborted"
    /\ UNCHANGED <<config, files, dirs, nDone, job, log, progress>>

\* argv is exhausted
main_end ==
    /\ pc = "main"
    /\ pc' = "done"
    /\ UNCHANGED <<config, files, dirs, nDone, job, log, results, progress>>

Next ==
    \/ \E path \in InputPaths : resizeCbz_raise(path)
    \/ \E path \in InputPaths : resizeCbz_exists(path)
    \/ \E path \in InputPaths : resizeZippedImages_enter(path)
    \/ makedirs
    \/ makedirs_fault
    \/ openInput
    \/ openInput_fault
    \/ openTemp
    \/ openTemp_fault
    \/ \E size \in Sizes : resize_entry(size)
    \/ resize_unsupported
    \/ \E what \in {"decode", "write"} : resize_fault(what)
    \/ closeTemp
    \/ closeTemp_fault
    \/ rename
    \/ rename_fault
    \/ except_ValueError
    \/ except_BaseException
    \/ remove_tempPath
    \/ remove_outputPath
    \/ main_next
    \/ main_except_ValueError
    \/ main_uncaught
    \/ main_end

Spec == Init /\ [][Next]_vars

\* --------------------------------------------------------------- claims
isTempPath(p) == endswith(p, TempSuffix)

\* a job of resizeZippedImages that got as far as its try block
inPublisher == job.tempPath # <<>>

\* control is back in the caller of resizeZippedImages
jobEnded == pc \in {"returned", "raised", "aborted"}

\* the extensions the claims allow, compared without regard to case
AllowedExts == { <<".", "j", "p", "g">>, <<".", "j", "p", "e", "g">>,
                 <<".", "p", "n", "g">>, <<".", "g", "i", "f">> }

unsupportedAt(names) ==
    {k \in 1..Len(names) : lower(splitext(names[k])[2]) \notin AllowedExts}

firstUnsupported(names) ==
    CHOOSE k \in unsupportedAt(names) : \A l \in unsupportedAt(names) : k <= l

\* C1: at every moment of a publish job and after it, whatever step
\* failed, a file at a final destination path is a closed archive holding
\* every entry of its source; unfinished content sits under a temp path
\* only; and a final path comes into existence only by the one rename of
\* the closed temp file.
C1_FinalComplete ==
    /\ \A p \in DOMAIN files :
         ~isTempPath(p) /\ p \notin DOMAIN InitFiles =>
           \/ /\ p = job.outputPath
              /\ files[p] = Archive(files[job.inputPath].entries)
           \/ \E k \in DOMAIN results :
                /\ results[k].outcome = "published"
                /\ results[k].outputPath = p
                /\ files[p] = Archive(files[results[k].path].entries)
    /\ \A p \in DOMAIN files : ~files[p].closed => p = job.tempPath
    /\ inPublisher /\ pc \notin {"returned", "main", "done"} =>
         job.outputPath \notin DOMAIN files

C1_OnlyByRename ==
    \A p \in DOMAIN files' \ DOMAIN files :
      ~isTempPath(p) =>
        /\ pc = "rename"
        /\ p = job.outputPath
        /\ files[job.tempPath].closed
        /\ files'[p] = files[job.tempPath]
        /\ job.tempPath \notin DOMAIN files'

C1_AtomicPublish == [](C1_FinalComplete) /\ [][C1_OnlyByRename]_vars

\* a job failed after writing some but not all entries: the partial
\* archive is under the temp path and the final path does not exist
C1_Witness ==
    /\ pc = "except BaseException"
    /\ job.tempPath \in DOMAIN files
    /\ Len(files[job.tempPath].entries) >= 1
    /\ Len(files[job.tempPath].entries) < Len(job.nameList)
    /\ job.outputPath \notin DOMAIN files

\* C2: once a failed publish job has handed control back to its caller,
\* whatever the kind of failure, its temp file no longer exists.
C2_TempRemovedOnFailure ==
    inPublisher /\ jobEnded /\ job.err # NoError =>
      job.tempPath \notin DOMAIN files

\* C3: resizeZippedImages never returns normally from a failure raised
\* inside it: the failure is logged and re-raised to the caller.
C3_PublisherPropagates ==
    inPublisher /\ job.err # NoError =>
      /\ pc # "returned"
      /\ pc = "raised" =>
           /\ log # <<>>
           /\ log[Len(log)] = [layer |-> "resizeZippedImages",
                               path |-> job.inputPath, err |-> job.err]

\* C4: a job whose source holds an entry with an unsupported extension, at
\* any position, ends as a failure with no file at its final path; unless
\* an I/O or decode fault stops the job before resize reaches that entry,
\* the error is the ValueError naming the first such entry, and it is
\* logged; the entries written before it stay under the temp path.
C4_UnsupportedRejected ==
    LET names == files[job.inputPath].entries
        k == firstUnsupported(names)
    IN  inPublisher /\ unsupportedAt(names) # {} =>
          /\ job.outputPath \notin DOMAIN files
          /\ job.i <= k
          /\ pc \notin {"rename"}
          /\ jobEnded =>
               /\ job.err # NoError
               /\ job.err.what \in {"decode", "write"} => job.i < k
               /\ job.err.class = "ValueError" =>
                    /\ job.i = k
                    /\ job.err = ValueError("is not a supported image", names[k])
                    /\ \E l \in DOMAIN log :
                         /\ log[l].path = job.inputPath
                         /\ log[l].err = job.err

\* the offending entry is in the middle: one entry was written to the temp
\* archive before the job failed naming it
C4_Witness ==
    /\ pc = "returned"
    /\ job.err = ValueError("is not a supported image", N_pbmp)
    /\ job.i = 2
    /\ job.tempPath \in DOMAIN files
    /\ files[job.tempPath].entries = <<N_1gif>>
    /\ job.outputPath \notin DOMAIN files

\* C5: when the output path of an accepted input already exists, the step
\* that handles the input changes nothing on disk and raises nothing: a
\* job is started only for an output path that does not exist, and a file
\* at a path that is not a temp path, a published output included, keeps
\* its content through every later step of the batch.
C5_SkipStep ==
    /\ pc = "main" /\ pc' = "main" /\ nDone' = nDone + 1 =>
         /\ files' = files
         /\ dirs' = dirs
         /\ log' = log
         /\ job' = NoJob
    /\ pc = "main" /\ job'.outputPath # <<>> =>
         job'.outputPath \notin DOMAIN files \cup dirs
    /\ \A p \in DOMAIN files :
         ~isTempPath(p) => p \in DOMAIN files' /\ files'[p] = files[p]

C5_ExistingOutputUntouched == [][C5_SkipStep]_vars

\* the same input is given twice: published the first time, skipped with
\* the output unchanged the second time
C5_Witness ==
    /\ Len(results) = 2
    /\ results[1].outcome = "published"
    /\ results[2].outcome = "exists"
    /\ results[2].path = results[1].path
    /\ files[results[1].outputPath] = Archive(files[results[1].path].entries)

\* C6: while resize runs, the temp archive holds exactly the names of the
\* source entries handled so far, in source order; so the archive a
\* successful job publishes has the entry-name sequence of its source.
C6_NamesPreserved ==
    /\ pc = "resize" =>
         files[job.tempPath].entries = SubSeq(job.nameList, 1, job.i - 1)
    /\ pc = "returned" /\ job.err = NoError =>
         files[job.outputPath].entries = files[job.inputPath].entries
    /\ \A k \in DOMAIN results :
         results[k].outcome = "published" =>
           files[results[k].outputPath].entries =
             InitFiles[results[k].path].entries

\* a two-entry archive was published
C6_Witness ==
    /\ pc = "returned"
    /\ job.err = NoError
    /\ files[job.outputPath].entries = <<N_1jpg, N_2PNG>>

\* the kind of end an input came to: rejected by resizeCbz or by int(),
\* skipped, failed on an unsupported entry, stopped by a fault, published
outcomeClass(outcome) ==
    IF outcome \in {"exists", "is not a supported image", "fault", "published"}
    THEN outcome
    ELSE "rejected"

\* the kind of end of an input handled on the disk as it was before the
\* run, given the error its job met, if any
aloneOutcome(path, err) ==
    IF validate(path, path \in DOMAIN InitFiles) # NoError
    THEN "rejected"
    ELSE IF outputPathOf(path) \in DOMAIN InitFiles \cup InitDirs THEN "exists"
    ELSE IF int(config.resize_landscape) < 0 \/ int(config.resize_portrait) < 0
         THEN "rejected"
    ELSE IF err.class = "OSError" THEN "fault"
    ELSE IF unsupportedAt(InitFiles[path].entries) # {}
         THEN "is not a supported image"
    ELSE "published"

\* C7: a ValueError-class failure of one input (not a file, wrong
\* extension, bad resized_file_ext, same extension, unsupported entry) is
\* logged and the loop goes on: the run stops early only on another kind
\* of fault, and an input that follows only such failures ends as it would
\* have ended alone.
C7_ValidationIsolated ==
    /\ \A k \in DOMAIN results :
         results[k].err.class = "ValueError" =>
           /\ \E l \in DOMAIN log : /\ log[l].path = results[k].path
                                    /\ log[l].err = results[k].err
           /\ k = Len(results) => pc # "aborted"
    /\ \A k \in DOMAIN results :
         (\A l \in 1..(k - 1) : results[l].err.class = "ValueError") =>
           outcomeClass(results[k].outcome) =
             aloneOutcome(results[k].path, results[k].err)
    /\ pc = "raised" /\ job.err.class = "ValueError" => nDone = Len(results) + 1

\* an archive with an unsupported entry failed, and the input after it was
\* published all the same
C7_Witness ==
    /\ Len(results) = 2
    /\ results[1].outcome = "is not a supported image"
    /\ results[2].outcome = "published"
    /\ pc = "main"

\* step-by-step reading of C8 as stated: cleanup, then log, then re-raise
C8_CleanupThenLog ==
    /\ pc = "except BaseException" /\ log' # log =>
         /\ job.tempPath \notin DOMAIN files
         /\ job.outputPath \notin DOMAIN files
    /\ inPublisher /\ job.err.class = "OSError" /\ pc' = "raised" =>
         /\ job.tempPath \notin DOMAIN files'
         /\ job.outputPath \notin DOMAIN files'
         /\ log'[Len(log')].err = job.err
    /\ pc = "aborted" => nDone' = nDone /\ results' = results

\* C8 as stated: on a non-validation fault, cleanup runs first, then the
\* log entry is written, then the fault is re-raised and ends the batch.
C8_Original == [][C8_CleanupThenLog]_vars

\* what the handler does: log, then cleanup, then re-raise
C8_LogThenCleanup ==
    /\ pc \in {"remove temp", "remove output"} =>
         /\ log # <<>>
         /\ log[Len(log)] = [layer |-> "resizeZippedImages",
                             path |-> job.inputPath, err |-> job.err]
    /\ inPublisher /\ job.err.class = "OSError" /\ pc' = "raised" =>
         /\ job.tempPath \notin DOMAIN files'
         /\ job.outputPath \notin DOMAIN files'
         /\ log'[Len(log')].err = job.err
    /\ inPublisher /\ job.err.class = "OSError" /\ pc = "raised" =>
         pc' = "aborted"
    /\ pc = "aborted" => nDone' = nDone /\ results' = results /\ pc' = "aborted"

\* C8 (amended): on a non-validation fault the log entry is written first,
\* then cleanup runs (temp path and final path both absent afterwards),
\* then the fault is re-raised and ends the batch: no later input is taken.
C8_FaultAborts == [][C8_LogThenCleanup]_vars

\* a decode fault on the first input, after one entry was written, ended
\* the run with a second input still to come
C8_Witness ==
    /\ pc = "aborted"
    /\ nDone = 1
    /\ job.err = OSError("decode")
    /\ job.i = 2
    /\ job.tempPath \notin DOMAIN files
    /\ job.outputPath \notin DOMAIN files
    /\ Len(log) = 1

\* C9: the output path and the temp path derived for an accepted input
\* differ from the path of every input accepted in the run, itself
\* included, and every file that was on disk before the run is still
\* there with the content it had.
C9_SourceUntouched ==
    LET accepted == {[path |-> results[k].path,
                      outputPath |-> results[k].outputPath] :
                       k \in {l \in DOMAIN results :
                                results[l].outputPath # <<>>}}
                    \cup (IF job.outputPath # <<>>
                          THEN {[path |-> job.inputPath,
                                 outputPath |-> job.outputPath]}
                          ELSE {})
    IN  /\ \A r \in accepted, q \in accepted :
             /\ r.outputPath # q.path
             /\ tempPathOf(r.outputPath) # q.path
        /\ inPublisher => job.tempPath # job.inputPath
        /\ \A p \in DOMAIN InitFiles :
             p \in DOMAIN files /\ files[p] = InitFiles[p]

\* b.CBZ was published as b.cbz (resized_file_ext = .cbz): the two paths
\* differ only by case, and the source is intact
C9_Witness ==
    /\ B_CBZ \in DOMAIN files
    /\ <<"b", ".", "c", "b", "z">> \in DOMAIN files
    /\ files[B_CBZ] = InitFiles[B_CBZ]

\* C10: the box used for an image is the landscape box when it is wider
\* than tall and the portrait box otherwise; the new size exceeds neither
\* the old size nor the box; an image that fits its box keeps its size.
C10_NeverEnlarged ==
    progress # NoProgress =>
      LET oldW == progress.oldSize[1]
          oldH == progress.oldSize[2]
          newW == progress.newSize[1]
          newH == progress.newSize[2]
          value == IF oldW > oldH THEN int(config.resize_landscape)
                   ELSE int(config.resize_portrait)
      IN  /\ newW <= oldW /\ newH <= oldH
          /\ newW <= value /\ newH <= value
          /\ newW >= 1 /\ newH >= 1
          /\ oldW <= value /\ oldH <= value => progress.newSize = progress.oldSize

\* a landscape image larger than its box was shrunk
C10_Witness ==
    /\ progress.oldSize = <<4, 3>>
    /\ int(config.resize_landscape) = 2
    /\ int(config.resize_portrait) = 1
    /\ progress.newSize = <<2, 2>>

====
